---- MODULE Spec2Model ----
(***************************************************************************)
(* Model of the Bitcoin script core of the firmware:                       *)
(*   - apps/bitcoin/authorize_coinjoin.py : the CoinJoin authorization     *)
(*     flow (specification Spec);                                          *)
(*   - apps/bitcoin/scripts.py : the script builders and parsers           *)
(*     (specifications ScriptSpec and MultisigSpec).                       *)
(* Byte strings are sequences of numbers 0..255, text strings sequences of *)
(* code points.                                                            *)
(***************************************************************************)
EXTENDS Integers, Sequences, FiniteSets, TLC

VARIABLES
    pc,                      \* where the authorize_coinjoin coroutine is suspended
    msg,                     \* the AuthorizeCoinJoin request (with its coin) of the run
    coinjoin_authorization,  \* the session's CoinJoin authorization, None if absent
    auth_before,             \* history: coinjoin_authorization when the run began
    trace,                   \* history: the steps the run has taken, in order
    result,                  \* what the last finished run returned or raised
    fn,                      \* scripts.py: the builder called last, None before any call
    args,                    \* the arguments of that call
    built,                   \* what the builder returned or raised
    buffer,                  \* the byte string handed to the parser
    parsed,                  \* what the parser returned or raised
    multisig,                \* the caller's MultisigRedeemScriptType object
    multisig_before          \* history: that object when the last builder was called

authVars == <<pc, msg, coinjoin_authorization, auth_before, trace, result>>
scriptVars == <<fn, args, built, buffer, parsed>>
multisigVars == <<multisig, multisig_before>>
vars == <<authVars, scriptVars, multisigVars>>

\* Python's None where a text is expected
None == "None"

\* the session holds no authorization (the global is None)
NoAuthorization == [installed |-> FALSE]

\* ------------------------------------------------------------------------
\* Python helpers

\* any(...) over the characters of a string
Range(s) == {s[i] : i \in 1..Len(s)}

\* ------------------------------------------------------------------------
\* Bounds of the model

\* longest coordinator string tried (one more than the longest accepted)
MaxCoordLen == 19

\* ------------------------------------------------------------------------
\* authorize_coinjoin.py

_MAX_COORDINATOR_LEN == 18

\* code points tried in a coordinator: just outside and just inside the
\* printable ASCII range
EdgeChars == {31, 32, 126, 127}

\* a coordinator of length n: 'A' (65) repeated, its k-th character c
Coordinator(n, k, c) == [i \in 1..n |-> IF i = k THEN c ELSE 65]

\* every length up to MaxCoordLen, and at the shortest and the longest
\* accepted length every edge character, first and last
Coordinators ==
    {Coordinator(n, n, 126) : n \in 0..MaxCoordLen}
    \cup {Coordinator(n, k, c) :
             n \in {1, _MAX_COORDINATOR_LEN}, k \in {1, _MAX_COORDINATOR_LEN},
             c \in EdgeChars}

\* the other fields of the request, and the coin the keychain decorator
\* resolves for it
Bodies ==
    { [amount |-> 1, max_fee |-> 1, address_n |-> <<84, 0, 0>>,
       script_type |-> "SPENDWITNESS", coin |-> "Bitcoin"],
      [amount |-> 2, max_fee |-> 3, address_n |-> <<49, 1, 0>>,
       script_type |-> "SPENDP2SHWITNESS", coin |-> "Testnet"] }

Requests ==
    { [coordinator |-> c, amount |-> b.amount, max_fee |-> b.max_fee,
       address_n |-> b.address_n, script_type |-> b.script_type,
       coin |-> b.coin] : c \in Coordinators, b \in Bodies }

\* the request before any run: an empty message
NoRequest ==
    [coordinator |-> <<>>, amount |-> 0, max_fee |-> 0, address_n |-> <<>>,
     script_type |-> None, coin |-> None]

\* the length check off by one: a coordinator of 18 characters is rejected
CoordinatorInvalid_off_by_one(coordinator) ==
    \/ Len(coordinator) >= _MAX_COORDINATOR_LEN
    \/ \E x \in Range(coordinator) : x < 32 \/ x > 126

\* lines 32-34: the condition under which DataError is raised
CoordinatorInvalid(coordinator) ==
    \/ Len(coordinator) > _MAX_COORDINATOR_LEN
    \/ \E x \in Range(coordinator) : x < 32 \/ x > 126

\* preauthorization.set_coinjoin_authorization(msg, coin): the authorization
\* object built from the request and the coin
set_coinjoin_authorization(m) ==
    [installed |-> TRUE,
     coordinator |-> m.coordinator, amount |-> m.amount, max_fee |-> m.max_fee,
     address_n |-> m.address_n, script_type |-> m.script_type, coin |-> m.coin]

\* the errors a suspension point can raise into the coroutine
AwaitErrors == {"DataError", "ActionCancelled", "Cancelled"}

\* a run ends by raising e: nothing else is assigned
Raise(e) ==
    /\ pc' = "idle"
    /\ result' = e
    /\ UNCHANGED <<msg, coinjoin_authorization, auth_before>>
    /\ UNCHANGED <<scriptVars, multisigVars>>

\* the coordinator check left out: every request goes on to validate_path
Begin_unchecked(m) ==
    /\ pc = "idle"
    /\ msg' = m
    /\ auth_before' = coinjoin_authorization
    /\ pc' = "validate_path"
    /\ result' = None
    /\ trace' = <<"coordinator_ok">>
    /\ UNCHANGED coinjoin_authorization
    /\ UNCHANGED <<scriptVars, multisigVars>>

\* lines 26-45: the handler is entered with a request, checks the coordinator
\* and either raises DataError or suspends in validate_path
Begin(m) ==
    /\ pc = "idle"
    /\ msg' = m
    /\ auth_before' = coinjoin_authorization
    /\ IF CoordinatorInvalid(m.coordinator)
       THEN /\ pc' = "idle"
            /\ result' = "DataError"
            /\ trace' = <<"coordinator_rejected">>
       ELSE /\ pc' = "validate_path"
            /\ result' = None
            /\ trace' = <<"coordinator_ok">>
    /\ UNCHANGED coinjoin_authorization
    /\ UNCHANGED <<scriptVars, multisigVars>>

\* lines 37-52: validate_path returns; the first text is built and the
\* coroutine suspends in require_confirm
PathValid ==
    /\ pc = "validate_path"
    /\ pc' = "require_confirm"
    /\ trace' = trace \o <<"path_ok", "confirm_shown">>
    /\ UNCHANGED <<msg, coinjoin_authorization, auth_before, result>>
    /\ UNCHANGED <<scriptVars, multisigVars>>

\* lines 37-45: validate_path raises
PathFails(e) ==
    /\ pc = "validate_path"
    /\ trace' = Append(trace, "path_rejected")
    /\ Raise(e)

\* the authorization installed already when the first prompt is confirmed
ConfirmAccepted_installs ==
    /\ pc = "require_confirm"
    /\ pc' = "require_hold_to_confirm"
    /\ coinjoin_authorization' = set_coinjoin_authorization(msg)
    /\ trace' = trace \o <<"confirm_accepted", "hold_shown">>
    /\ UNCHANGED <<msg, auth_before, result>>
    /\ UNCHANGED <<scriptVars, multisigVars>>

\* lines 52-59: the user confirms; the second text is built and the
\* coroutine suspends in require_hold_to_confirm
ConfirmAccepted ==
    /\ pc = "require_confirm"
    /\ pc' = "require_hold_to_confirm"
    /\ trace' = trace \o <<"confirm_accepted", "hold_shown">>
    /\ UNCHANGED <<msg, coinjoin_authorization, auth_before, result>>
    /\ UNCHANGED <<scriptVars, multisigVars>>

\* line 52: require_confirm raises (declined or cancelled)
ConfirmFails(e) ==
    /\ pc = "require_confirm"
    /\ trace' = Append(trace, "confirm_failed")
    /\ Raise(e)

\* an authorization already installed is kept instead of replaced
HoldAccepted_keeps_old ==
    /\ pc = "require_hold_to_confirm"
    /\ coinjoin_authorization' =
           IF coinjoin_authorization = NoAuthorization
           THEN set_coinjoin_authorization(msg)
           ELSE coinjoin_authorization
    /\ pc' = "idle"
    /\ result' = "Success"
    /\ trace' = trace \o <<"hold_accepted", "install", "return_success">>
    /\ UNCHANGED <<msg, auth_before>>
    /\ UNCHANGED <<scriptVars, multisigVars>>

\* lines 59-64: the user holds to confirm; the authorization is installed
\* and Success returned
HoldAccepted ==
    /\ pc = "require_hold_to_confirm"
    /\ coinjoin_authorization' = set_coinjoin_authorization(msg)
    /\ pc' = "idle"
    /\ result' = "Success"
    /\ trace' = trace \o <<"hold_accepted", "install", "return_success">>
    /\ UNCHANGED <<msg, auth_before>>
    /\ UNCHANGED <<scriptVars, multisigVars>>

\* line 59: require_hold_to_confirm raises (declined or cancelled)
HoldFails(e) ==
    /\ pc = "require_hold_to_confirm"
    /\ trace' = Append(trace, "hold_failed")
    /\ Raise(e)

\* session teardown or device reset, between runs: the session state is
\* dropped, and with it the record of the last run
Teardown ==
    /\ pc = "idle"
    /\ coinjoin_authorization' = NoAuthorization
    /\ auth_before' = NoAuthorization
    /\ msg' = NoRequest
    /\ trace' = <<>>
    /\ result' = None
    /\ UNCHANGED pc
    /\ UNCHANGED <<scriptVars, multisigVars>>

\* ------------------------------------------------------------------------
\* scripts.py: byte strings, results and exceptions

Min(a, b) == IF a < b THEN a ELSE b

\* data[i] raises IndexError unless 0 <= i < len(data)
HasIndex(data, i) == 0 <= i /\ i < Len(data)

\* data[i], for an index in range
At(data, i) == data[i + 1]

\* data[a:b] for 0 <= a: a slice never raises, it stops at the end
Slice(data, a, b) == SubSeq(data, a + 1, Min(b, Len(data)))

\* n copies of byte b
Repeat(b, n) == [i \in 1..n |-> b]

\* little-endian bytes of n, k of them
RECURSIVE LittleEndian(_, _)
LittleEndian(n, k) ==
    IF k = 0 THEN <<>> ELSE <<n % 256>> \o LittleEndian(n \div 256, k - 1)

\* data[offset] + (data[offset + 1] << 8) + ..., k bytes
RECURSIVE ReadLittleEndian(_, _, _)
ReadLittleEndian(data, offset, k) ==
    IF k = 0 THEN 0
    ELSE At(data, offset) + 256 * ReadLittleEndian(data, offset + 1, k - 1)

\* what a function returned (err = "ok") or the exception it raised
Return(value) == [err |-> "ok", ret |-> value]
Raised(e) == [err |-> e, ret |-> <<>>]

\* no call yet
NoResult == [err |-> None, ret |-> <<>>]

\* ------------------------------------------------------------------------
\* writers.py (apps.common.writers, apps.bitcoin.writers): each writer is
\* given as the bytes it appends to w

\* write_bitcoin_varint(w, n): Bitcoin compact size (n <= 0xFFFFFFFF is
\* written n \div 65536 <= 65535)
write_bitcoin_varint(n) ==
    IF n < 253 THEN <<n>>
    ELSE IF n <= 65535 THEN <<253>> \o LittleEndian(n, 2)
    ELSE IF n \div 65536 <= 65535 THEN <<254>> \o LittleEndian(n, 4)
    ELSE <<255>> \o LittleEndian(n, 8)

\* write_op_push(w, n): the push opcode for n bytes to follow
write_op_push(n) ==
    IF n < 76 THEN <<n>>
    ELSE IF n <= 255 THEN <<76, n>>
    ELSE IF n <= 65535 THEN <<77>> \o LittleEndian(n, 2)
    ELSE <<78>> \o LittleEndian(n, 4)

\* write_bytes_unchecked(w, b): the bytes themselves
write_bytes_unchecked(b) == b

\* write_bytes_prefixed(w, b): varint(len(b)), then the bytes
write_bytes_prefixed(b) == write_bitcoin_varint(Len(b)) \o b

\* ------------------------------------------------------------------------
\* scripts.py: helpers (lines 505-566)

\* lines 509-512
write_signature_prefixed(signature, hash_type) ==
    write_bitcoin_varint(Len(signature) + 1)
        \o write_bytes_unchecked(signature) \o <<hash_type>>

\* the push opcode counts the signature without its hash type byte
append_signature_short_push(signature, hash_type) ==
    write_op_push(Len(signature))
        \o write_bytes_unchecked(signature) \o <<hash_type>>

\* lines 515-518
append_signature(signature, hash_type) ==
    write_op_push(Len(signature) + 1)
        \o write_bytes_unchecked(signature) \o <<hash_type>>

\* lines 521-523
append_pubkey(pubkey) ==
    write_op_push(Len(pubkey)) \o write_bytes_unchecked(pubkey)

\* what read_bitcoin_varint and read_op_push return: (n, offset)
ReadOk(n, offset) == [err |-> "ok", n |-> n, offset |-> offset]
ReadRaised(e) == [err |-> e, n |-> 0, offset |-> 0]

\* a k-byte little-endian length after the prefix at offset - 1
ReadLength(data, offset, k) ==
    IF HasIndex(data, offset + k - 1)
    THEN ReadOk(ReadLittleEndian(data, offset, k), offset + k)
    ELSE ReadRaised("IndexError")

\* lines 526-543
read_bitcoin_varint(data, offset) ==
    IF ~HasIndex(data, offset) THEN ReadRaised("IndexError")
    ELSE LET prefix == At(data, offset) IN
         IF prefix < 253 THEN ReadOk(prefix, offset + 1)
         ELSE IF prefix = 253 THEN ReadLength(data, offset + 1, 2)
         ELSE IF prefix = 254 THEN ReadLength(data, offset + 1, 4)
         ELSE ReadRaised("DataError")

\* lines 546-566
read_op_push(data, offset) ==
    IF ~HasIndex(data, offset) THEN ReadRaised("IndexError")
    ELSE LET prefix == At(data, offset) IN
         IF prefix < 76 THEN ReadOk(prefix, offset + 1)
         ELSE IF prefix = 76 THEN ReadLength(data, offset + 1, 1)
         ELSE IF prefix = 77 THEN ReadLength(data, offset + 1, 2)
         ELSE IF prefix = 78 THEN ReadLength(data, offset + 1, 4)
         ELSE ReadRaised("DataError")

\* the (signature, sighash_type) pair read from n bytes at offset, as in
\* lines 150-151, 278-279, 351-352 and 428-429; the index raises IndexError
ReadSignature(data, offset, n) ==
    IF HasIndex(data, offset + n - 1)
    THEN Return(<<Slice(data, offset, offset + n - 1), At(data, offset + n - 1)>>)
    ELSE Raised("IndexError")

\* ------------------------------------------------------------------------
\* scripts.py: P2PKH scriptSig and P2WPKH witness (lines 137-159, 264-287)

\* lines 137-143
input_script_p2pkh_or_p2sh(pubkey, signature, hash_type) ==
    Return(append_signature(signature, hash_type) \o append_pubkey(pubkey))

\* lines 154-159 and 282-287: the second item, which must end the buffer
ReadLastPubkey(data, r, sig) ==
    IF r.err # "ok" THEN Raised(r.err)
    ELSE IF r.offset + r.n # Len(data) THEN Raised("DataError")
    ELSE Return(<< <<Slice(data, r.offset, r.offset + r.n)>>, <<sig>> >>)

\* lines 146-159
read_input_script_p2pkh(script_sig) ==
    LET r1 == read_op_push(script_sig, 0) IN
    IF r1.err # "ok" THEN Raised(r1.err)
    ELSE LET sig == ReadSignature(script_sig, r1.offset, r1.n) IN
         IF sig.err # "ok" THEN Raised(sig.err)
         ELSE ReadLastPubkey(script_sig,
                             read_op_push(script_sig, r1.offset + r1.n),
                             sig.ret)

\* lines 264-269
witness_p2wpkh(signature, pubkey, hash_type) ==
    Return(write_bitcoin_varint(2)
               \o write_signature_prefixed(signature, hash_type)
               \o write_bytes_prefixed(pubkey))

\* lines 272-287
read_witness_p2wpkh(witness) ==
    IF ~HasIndex(witness, 0) THEN Raised("IndexError")
    ELSE IF At(witness, 0) # 2 THEN Raised("DataError")
    ELSE LET r1 == read_bitcoin_varint(witness, 1) IN
         IF r1.err # "ok" THEN Raised(r1.err)
         ELSE LET sig == ReadSignature(witness, r1.offset, r1.n) IN
              IF sig.err # "ok" THEN Raised(sig.err)
              ELSE ReadLastPubkey(witness,
                                  read_bitcoin_varint(witness, r1.offset + r1.n),
                                  sig.ret)

\* ------------------------------------------------------------------------
\* scripts.py: bare multisig output script (lines 441-490)

\* most public keys a multisig script holds (line 449)
MaxMultisigKeys == 15

\* length of a compressed public key (lines 452, 463, 482)
PubkeyLen == 33

\* lines 462-463
output_script_multisig_length(pubkeys, m) ==
    1 + Len(pubkeys) * (1 + PubkeyLen) + 1 + 1

\* the keys written last to first
RECURSIVE AppendPubkeysReversed(_, _)
AppendPubkeysReversed(pubkeys, i) ==
    IF i > Len(pubkeys) THEN <<>>
    ELSE AppendPubkeysReversed(pubkeys, i + 1) \o append_pubkey(pubkeys[i])

\* the bytes appended for pubkeys[i..], lines 456-457
RECURSIVE AppendPubkeys(_, _)
AppendPubkeys(pubkeys, i) ==
    IF i > Len(pubkeys) THEN <<>>
    ELSE append_pubkey(pubkeys[i]) \o AppendPubkeys(pubkeys, i + 1)

\* lines 447-459: the bytes appended to w, or the DataError raised
write_output_script_multisig(pubkeys, m) ==
    LET n == Len(pubkeys) IN
    IF n < 1 \/ n > MaxMultisigKeys \/ m < 1 \/ m > MaxMultisigKeys \/ m > n
    THEN Raised("DataError")
    ELSE IF \E i \in 1..n : Len(pubkeys[i]) # PubkeyLen
    THEN Raised("DataError")
    ELSE Return(<<80 + m>> \o AppendPubkeys(pubkeys, 1) \o <<80 + n, 174>>)

\* lines 441-444
output_script_multisig(pubkeys, m) == write_output_script_multisig(pubkeys, m)

\* lines 480-485: the public keys still to read, count of them, from offset
RECURSIVE ReadPubkeys(_, _, _, _)
ReadPubkeys(script, offset, count, public_keys) ==
    IF count = 0 THEN [err |-> "ok", offset |-> offset, keys |-> public_keys]
    ELSE LET r == read_op_push(script, offset) IN
         IF r.err # "ok" THEN [err |-> r.err, offset |-> 0, keys |-> <<>>]
         ELSE IF r.n # PubkeyLen
         THEN [err |-> "DataError", offset |-> 0, keys |-> <<>>]
         ELSE ReadPubkeys(script, r.offset + r.n, count - 1,
                  Append(public_keys, Slice(script, r.offset, r.offset + r.n)))

\* lines 466-490
read_output_script_multisig(script) ==
    LET len == Len(script) IN
    IF ~HasIndex(script, len - 1) THEN Raised("IndexError")
    ELSE IF At(script, len - 1) # 174 THEN Raised("DataError")
    ELSE IF ~(81 <= At(script, 0) /\ At(script, 0) < 96) THEN Raised("DataError")
    ELSE IF ~HasIndex(script, len - 2) THEN Raised("IndexError")
    ELSE IF ~(81 <= At(script, len - 2) /\ At(script, len - 2) < 96)
    THEN Raised("DataError")
    ELSE LET threshold == At(script, 0) - 80
             pubkey_count == At(script, len - 2) - 80
         IN  IF threshold > pubkey_count THEN Raised("DataError")
             ELSE LET r == ReadPubkeys(script, 1, pubkey_count, <<>>) IN
                  IF r.err # "ok" THEN Raised(r.err)
                  ELSE IF r.offset + 2 # len THEN Raised("DataError")
                  ELSE Return(<<r.keys, threshold>>)

\* ------------------------------------------------------------------------
\* multisig.py: the MultisigRedeemScriptType object is modelled by the list
\* of public keys derived from it, its threshold m and its signature slots

\* multisig_get_pubkeys(multisig)
multisig_get_pubkeys(ms) == ms.pubkeys

\* multisig_get_pubkey_count(multisig)
multisig_get_pubkey_count(ms) == Len(ms.pubkeys)

\* ------------------------------------------------------------------------
\* scripts.py: P2WSH witness (lines 290-361)

\* the slots taken as they are, not stretched
StretchSignatures_unstretched(ms) == ms.signatures

\* lines 297-299: the slots stretched to the number of public keys; the
\* None of the padding and the empty byte string are both false in the
\* tests of lines 301 and 306, the only uses made of them
StretchSignatures(ms) ==
    LET missing == multisig_get_pubkey_count(ms) - Len(ms.signatures) IN
    ms.signatures \o [i \in 1..missing |-> <<>>]

\* line 306: [s for s in signatures if s]
RECURSIVE FilterEmpty(_, _)
FilterEmpty(signatures, i) ==
    IF i > Len(signatures) THEN <<>>
    ELSE (IF signatures[i] # <<>> THEN <<signatures[i]>> ELSE <<>>)
             \o FilterEmpty(signatures, i + 1)

\* lines 329-330
RECURSIVE WriteSignaturesPrefixed(_, _, _)
WriteSignaturesPrefixed(signatures, hash_type, i) ==
    IF i > Len(signatures) THEN <<>>
    ELSE write_signature_prefixed(signatures[i], hash_type)
             \o WriteSignaturesPrefixed(signatures, hash_type, i + 1)

\* lines 308-336: the witness for the filtered signatures
WitnessItems(ms, signatures, hash_type) ==
    LET num_of_witness_items == 1 + Len(signatures) + 1
        pubkeys == multisig_get_pubkeys(ms)
        redeem_script_length == output_script_multisig_length(pubkeys, ms.m)
        redeem == write_output_script_multisig(pubkeys, ms.m)
    IN  IF redeem.err # "ok" THEN Raised(redeem.err)
        ELSE Return(write_bitcoin_varint(num_of_witness_items)
                        \o write_bitcoin_varint(0)
                        \o WriteSignaturesPrefixed(signatures, hash_type, 1)
                        \o write_bitcoin_varint(redeem_script_length)
                        \o redeem.ret)

\* lines 290-336
witness_p2wsh(ms, signature, signature_index, hash_type) ==
    LET signatures == StretchSignatures(ms) IN
    IF ~HasIndex(signatures, signature_index) THEN Raised("IndexError")
    ELSE IF At(signatures, signature_index) # <<>> THEN Raised("DataError")
    ELSE WitnessItems(ms,
             FilterEmpty([signatures EXCEPT ![signature_index + 1] = signature], 1),
             hash_type)

\* lines 349-354: count signatures read from offset
RECURSIVE ReadWitnessSignatures(_, _, _, _)
ReadWitnessSignatures(witness, offset, count, signatures) ==
    IF count <= 0 THEN [err |-> "ok", offset |-> offset, sigs |-> signatures]
    ELSE LET r == read_bitcoin_varint(witness, offset) IN
         IF r.err # "ok" THEN [err |-> r.err, offset |-> 0, sigs |-> <<>>]
         ELSE LET sig == ReadSignature(witness, r.offset, r.n) IN
              IF sig.err # "ok" THEN [err |-> sig.err, offset |-> 0, sigs |-> <<>>]
              ELSE ReadWitnessSignatures(witness, r.offset + r.n, count - 1,
                                         Append(signatures, sig.ret))

\* lines 356-361 and 433-438: the last item, the script, must end the buffer
ReadLastScript(data, r, signatures) ==
    IF r.err # "ok" THEN Raised(r.err)
    ELSE IF r.offset + r.n # Len(data) THEN Raised("DataError")
    ELSE Return(<<Slice(data, r.offset, r.offset + r.n), signatures>>)

\* lines 339-361
read_witness_p2wsh(witness) ==
    LET r0 == read_bitcoin_varint(witness, 0) IN
    IF r0.err # "ok" THEN Raised(r0.err)
    ELSE IF ~HasIndex(witness, r0.offset) THEN Raised("IndexError")
    ELSE IF At(witness, r0.offset) # 0 THEN Raised("DataError")
    ELSE LET rs == ReadWitnessSignatures(witness, r0.offset + 1, r0.n - 2, <<>>) IN
         IF rs.err # "ok" THEN Raised(rs.err)
         ELSE ReadLastScript(witness, read_bitcoin_varint(witness, rs.offset),
                             rs.sigs)

\* ------------------------------------------------------------------------
\* scripts.py: legacy multisig scriptSig (lines 370-438)

\* every slot pushed, the empty ones as a push of the hash type alone
RECURSIVE AppendSignatures_all_slots(_, _, _)
AppendSignatures_all_slots(signatures, hash_type, i) ==
    IF i > Len(signatures) THEN <<>>
    ELSE append_signature(signatures[i], hash_type)
             \o AppendSignatures_all_slots(signatures, hash_type, i + 1)

\* lines 402-404
RECURSIVE AppendSignatures(_, _, _)
AppendSignatures(signatures, hash_type, i) ==
    IF i > Len(signatures) THEN <<>>
    ELSE (IF Len(signatures[i]) > 0
          THEN append_signature(signatures[i], hash_type) ELSE <<>>)
             \o AppendSignatures(signatures, hash_type, i + 1)

\* OP_FALSE written for every coin
OpFalsePrefix_always(coin) == <<0>>

\* lines 396-400: OP_FALSE unless the coin is Decred on a build that has it
OpFalsePrefix(coin) ==
    IF coin.BITCOIN_ONLY \/ ~coin.decred THEN <<0>> ELSE <<>>

\* lines 382-410: the scriptSig for the slots as they are after line 380
ScriptSigItems(ms, signatures, hash_type, coin) ==
    LET pubkeys == multisig_get_pubkeys(ms)
        redeem_script_length == output_script_multisig_length(pubkeys, ms.m)
        redeem == write_output_script_multisig(pubkeys, ms.m)
    IN  IF redeem.err # "ok" THEN Raised(redeem.err)
        ELSE Return(OpFalsePrefix(coin)
                        \o AppendSignatures(signatures, hash_type, 1)
                        \o write_op_push(redeem_script_length)
                        \o redeem.ret)

\* lines 377-380: the caller's slot list after the call; signatures is
\* multisig.signatures itself, so line 380 writes into the caller's object
SlotsAfterCall(ms, signature, signature_index) ==
    IF ~HasIndex(ms.signatures, signature_index) THEN ms.signatures
    ELSE IF Len(At(ms.signatures, signature_index)) > 0 THEN ms.signatures
    ELSE [ms.signatures EXCEPT ![signature_index + 1] = signature]

\* lines 370-410: what the call returns or raises
input_script_multisig(ms, signature, signature_index, hash_type, coin) ==
    IF ~HasIndex(ms.signatures, signature_index) THEN Raised("IndexError")
    ELSE IF Len(At(ms.signatures, signature_index)) > 0 THEN Raised("DataError")
    ELSE ScriptSigItems(ms, SlotsAfterCall(ms, signature, signature_index),
                        hash_type, coin)

\* the loop left only by a push that goes past the end of the buffer
RECURSIVE ReadScriptSigSignatures_past_end(_, _, _)
ReadScriptSigSignatures_past_end(script_sig, offset, signatures) ==
    LET r == read_op_push(script_sig, offset) IN
    IF r.err # "ok" THEN [err |-> r.err, last |-> r, sigs |-> <<>>]
    ELSE IF r.offset + r.n > Len(script_sig)
    THEN [err |-> "ok", last |-> r, sigs |-> signatures]
    ELSE LET sig == ReadSignature(script_sig, r.offset, r.n) IN
         IF sig.err # "ok" THEN [err |-> sig.err, last |-> r, sigs |-> <<>>]
         ELSE ReadScriptSigSignatures_past_end(script_sig, r.offset + r.n,
                                               Append(signatures, sig.ret))

\* lines 424-431: the pushes read as signatures, up to the one that reaches
\* the end of the buffer
RECURSIVE ReadScriptSigSignatures(_, _, _)
ReadScriptSigSignatures(script_sig, offset, signatures) ==
    LET r == read_op_push(script_sig, offset) IN
    IF r.err # "ok" THEN [err |-> r.err, last |-> r, sigs |-> <<>>]
    ELSE IF r.offset + r.n >= Len(script_sig)
    THEN [err |-> "ok", last |-> r, sigs |-> signatures]
    ELSE LET sig == ReadSignature(script_sig, r.offset, r.n) IN
         IF sig.err # "ok" THEN [err |-> sig.err, last |-> r, sigs |-> <<>>]
         ELSE ReadScriptSigSignatures(script_sig, r.offset + r.n,
                                      Append(signatures, sig.ret))

\* lines 413-438
read_input_script_multisig(script_sig) ==
    IF ~HasIndex(script_sig, 0) THEN Raised("IndexError")
    ELSE IF At(script_sig, 0) # 0 THEN Raised("DataError")
    ELSE LET rs == ReadScriptSigSignatures(script_sig, 1, <<>>) IN
         IF rs.err # "ok" THEN Raised(rs.err)
         ELSE ReadLastScript(script_sig, rs.last, rs.sigs)

\* ------------------------------------------------------------------------
\* scripts.py: BIP-143 scriptCode (lines 111-129) and what it calls

\* InputScriptType (trezor.messages), the members named in common.py and
\* scripts.py
InputScriptTypes ==
    {"SPENDADDRESS", "SPENDMULTISIG", "EXTERNAL", "SPENDWITNESS",
     "SPENDP2SHWITNESS"}

\* coin.script_hash(pubkey): a digest of 20 bytes that depends on the coin's
\* hash function and on every byte of the key (byte i of the digest mixes
\* the key's length, its i-th byte and its sum)
RECURSIVE SumBytes(_, _)
SumBytes(b, i) == IF i > Len(b) THEN 0 ELSE b[i] + SumBytes(b, i + 1)

script_hash(coin, pubkey) ==
    [i \in 1..20 |->
        (pubkey[((i - 1) % Len(pubkey)) + 1] + i * Len(pubkey)
            + SumBytes(pubkey, 1) + (IF coin.decred THEN 1 ELSE 0)) % 256]

\* common.py lines 70-78; a failed ensure raises AssertionError
ecdsa_hash_pubkey(pubkey, coin) ==
    IF ~HasIndex(pubkey, 0) THEN Raised("IndexError")
    ELSE IF At(pubkey, 0) = 4
    THEN (IF Len(pubkey) = 65 THEN Return(script_hash(coin, pubkey))
          ELSE Raised("AssertionError"))
    ELSE IF At(pubkey, 0) = 0
    THEN (IF Len(pubkey) = 1 THEN Return(script_hash(coin, pubkey))
          ELSE Raised("AssertionError"))
    ELSE IF Len(pubkey) = 33 THEN Return(script_hash(coin, pubkey))
    ELSE Raised("AssertionError")

\* lines 162-171
output_script_p2pkh(pubkeyhash) ==
    IF Len(pubkeyhash) # 20 THEN Raised("AssertionError")
    ELSE Return(<<118, 169, 20>> \o pubkeyhash \o <<136, 172>>)

\* the multisig input type counted among the single-key ones
P2pkhScriptType_with_multisig(txi) ==
    \/ txi.script_type = "SPENDWITNESS"
    \/ txi.script_type = "SPENDP2SHWITNESS"
    \/ txi.script_type = "SPENDADDRESS"
    \/ txi.script_type = "EXTERNAL"
    \/ txi.script_type = "SPENDMULTISIG"

\* lines 117-122: p2pkh
P2pkhScriptType(txi) ==
    \/ txi.script_type = "SPENDWITNESS"
    \/ txi.script_type = "SPENDP2SHWITNESS"
    \/ txi.script_type = "SPENDADDRESS"
    \/ txi.script_type = "EXTERNAL"

\* lines 111-129
bip143_derive_script_code(txi, public_keys, threshold, coin) ==
    IF Len(public_keys) > 1
    THEN output_script_multisig(public_keys, threshold)
    ELSE IF P2pkhScriptType(txi)
    THEN IF ~HasIndex(public_keys, 0) THEN Raised("IndexError")
         ELSE LET pubkeyhash == ecdsa_hash_pubkey(At(public_keys, 0), coin) IN
              IF pubkeyhash.err # "ok" THEN Raised(pubkeyhash.err)
              ELSE output_script_p2pkh(pubkeyhash.ret)
    ELSE Raised("DataError")

\* ------------------------------------------------------------------------
\* Inputs of the script functions

\* most public keys tried in a bare multisig output script (one more than
\* the script format holds)
MaxKeys == 16

\* most public keys of a MultisigRedeemScriptType object tried
MaxSigners == 8

\* bytes the public keys are filled with: opcodes and length prefixes the
\* parsers give a meaning to
KeyFill == <<174, 81, 33, 0, 76, 255, 77, 78, 253, 254, 95, 96, 1, 2, 80, 82, 175>>

\* the i-th compressed public key: 02 or 03, then 32 bytes
Pubkey(i) == <<2 + (i % 2)>> \o Repeat(KeyFill[((i - 1) % Len(KeyFill)) + 1], 32)

\* n public keys, all different, in this order
Pubkeys(n) == [i \in 1..n |-> Pubkey(i)]

\* DER INTEGER of a big-endian number: leading zeros stripped, a zero byte
\* kept in front of a set high bit
RECURSIVE StripZeros(_)
StripZeros(b) ==
    IF Len(b) > 1 /\ b[1] = 0 THEN StripZeros(Tail(b)) ELSE b

DerInteger(b) ==
    LET v == StripZeros(b)
        w == IF v[1] >= 128 THEN <<0>> \o v ELSE v
    IN  <<2, Len(w)>> \o w

\* der.encode_seq((r, s)): SEQUENCE { INTEGER r, INTEGER s }
der_encode_seq(r, s) ==
    LET body == DerInteger(r) \o DerInteger(s) IN <<48, Len(body)>> \o body

\* common.ecdsa_sign: the DER signature of the curve's 32-byte r and s
ecdsa_sign(r, s) == der_encode_seq(r, s)

\* the longest (72 bytes), a usual (71 bytes) and the shortest (8 bytes)
\* DER signature
SigLong == ecdsa_sign(Repeat(128, 32), Repeat(255, 32))
SigUsual == ecdsa_sign(Repeat(63, 32), Repeat(174, 32))
SigShort == ecdsa_sign(Repeat(0, 31) \o <<1>>, Repeat(0, 31) \o <<1>>)
Signatures == {SigLong, SigUsual, SigShort}

\* SIGHASH_ALL (common.py line 16), SIGHASH_ALL | ANYONECANPAY, 0 and 255
HashTypes == {1, 129, 0, 255}

\* bytes put after a builder's output before it is parsed
Trailings == {<<0>>, <<1, 0>>, <<76>>, <<174>>, <<81, 174>>, <<33>>}

\* the coin and the build: coin.decred and utils.BITCOIN_ONLY
Coins == [decred : BOOLEAN, BITCOIN_ONLY : BOOLEAN]

NoMultisig == [pubkeys |-> <<>>, m |-> 0, signatures |-> <<>>]

\* the objects tried: n keys, threshold 1, n or (invalid) n + 1; the slots
\* all empty, or absent (an empty list), or the last one already signed
MultisigsOf(n) ==
    { [pubkeys |-> Pubkeys(n), m |-> m, signatures |-> sigs] :
        m \in {1, n, n + 1},
        sigs \in { [i \in 1..n |-> <<>>], <<>>,
                   [i \in 1..n |-> IF i = n THEN SigUsual ELSE <<>>] } }

Multisigs == UNION {MultisigsOf(n) : n \in 1..MaxSigners}

\* ------------------------------------------------------------------------
\* Calls of the single-key and output-script functions (ScriptSpec)

\* a builder is called: its result is the buffer a parser can be given
Called(name, a, r) ==
    /\ fn' = name
    /\ args' = a
    /\ built' = r
    /\ buffer' = r.ret
    /\ parsed' = NoResult

Call_input_script_p2pkh_or_p2sh(pubkey, signature, hash_type) ==
    /\ Called("input_script_p2pkh_or_p2sh",
              [pubkey |-> pubkey, signature |-> signature, hash_type |-> hash_type],
              input_script_p2pkh_or_p2sh(pubkey, signature, hash_type))
    /\ UNCHANGED <<authVars, multisigVars>>

Call_witness_p2wpkh(signature, pubkey, hash_type) ==
    /\ Called("witness_p2wpkh",
              [pubkey |-> pubkey, signature |-> signature, hash_type |-> hash_type],
              witness_p2wpkh(signature, pubkey, hash_type))
    /\ UNCHANGED <<authVars, multisigVars>>

Call_output_script_multisig(pubkeys, m) ==
    /\ Called("output_script_multisig", [pubkeys |-> pubkeys, m |-> m],
              output_script_multisig(pubkeys, m))
    /\ UNCHANGED <<authVars, multisigVars>>

\* the caller puts bytes after the builder's output
AppendTrailing(t) ==
    /\ built.err = "ok"
    /\ parsed = NoResult
    /\ buffer = built.ret
    /\ buffer' = buffer \o t
    /\ UNCHANGED <<fn, args, built, parsed, authVars, multisigVars>>

\* a parser is called on the buffer of the matching builder
Parse(name, r) ==
    /\ fn = name
    /\ built.err = "ok"
    /\ parsed = NoResult
    /\ parsed' = r
    /\ UNCHANGED <<fn, args, built, buffer, authVars, multisigVars>>

Call_read_input_script_p2pkh ==
    Parse("input_script_p2pkh_or_p2sh", read_input_script_p2pkh(buffer))

Call_read_witness_p2wpkh ==
    Parse("witness_p2wpkh", read_witness_p2wpkh(buffer))

Call_read_output_script_multisig ==
    Parse("output_script_multisig", read_output_script_multisig(buffer))

\* ------------------------------------------------------------------------
\* Calls of the multisig functions on the caller's object (MultisigSpec)

Call_input_script_multisig(signature, signature_index, hash_type, coin) ==
    /\ Called("input_script_multisig",
              [signature |-> signature, signature_index |-> signature_index,
               hash_type |-> hash_type, coin |-> coin],
              input_script_multisig(multisig, signature, signature_index,
                                    hash_type, coin))
    /\ multisig' = [multisig EXCEPT
                      !.signatures = SlotsAfterCall(multisig, signature,
                                                    signature_index)]
    /\ multisig_before' = multisig
    /\ UNCHANGED authVars

Call_witness_p2wsh(signature, signature_index, hash_type) ==
    /\ Called("witness_p2wsh",
              [signature |-> signature, signature_index |-> signature_index,
               hash_type |-> hash_type],
              witness_p2wsh(multisig, signature, signature_index, hash_type))
    /\ multisig_before' = multisig
    /\ UNCHANGED <<multisig, authVars>>

Call_read_input_script_multisig ==
    Parse("input_script_multisig", read_input_script_multisig(buffer))

Call_read_witness_p2wsh ==
    Parse("witness_p2wsh", read_witness_p2wsh(buffer))

\* ------------------------------------------------------------------------
\* Calls of bip143_derive_script_code (ScriptCodeSpec)

\* an uncompressed key of 65 bytes and the point at infinity
UncompressedPubkey == <<4>> \o Repeat(7, 64)
InfinityPubkey == <<0>>

\* keys ecdsa_hash_pubkey refuses: 32 bytes, and 33 bytes that begin with 4
ShortPubkey == Repeat(2, 32)
MisprefixedPubkey == <<4>> \o Repeat(9, 32)

\* the key lists tried: none to MaxKeys compressed keys, and one key of
\* each other form
PublicKeyLists ==
    {Pubkeys(n) : n \in 0..MaxKeys}
        \cup {<<UncompressedPubkey>>, <<InfinityPubkey>>, <<ShortPubkey>>,
              <<MisprefixedPubkey>>}

\* the function is pure: one call from the idle state shows all it does
Call_bip143_derive_script_code(txi, public_keys, threshold, coin) ==
    /\ fn = None
    /\ Called("bip143_derive_script_code",
              [txi |-> txi, public_keys |-> public_keys,
               threshold |-> threshold, coin |-> coin],
              bip143_derive_script_code(txi, public_keys, threshold, coin))
    /\ UNCHANGED <<authVars, multisigVars>>

\* ------------------------------------------------------------------------
\* Specifications

AuthIdle ==
    /\ pc = "idle"
    /\ msg = NoRequest
    /\ coinjoin_authorization = NoAuthorization
    /\ auth_before = NoAuthorization
    /\ trace = <<>>
    /\ result = None

ScriptIdle ==
    /\ fn = None
    /\ args = <<>>
    /\ built = NoResult
    /\ buffer = <<>>
    /\ parsed = NoResult

MultisigIdle ==
    /\ multisig = NoMultisig
    /\ multisig_before = NoMultisig

\* the authorization flow
Init == AuthIdle /\ ScriptIdle /\ MultisigIdle

Next ==
    \/ \E m \in Requests : Begin(m)
    \/ PathValid
    \/ \E e \in AwaitErrors : PathFails(e)
    \/ ConfirmAccepted
    \/ \E e \in AwaitErrors : ConfirmFails(e)
    \/ HoldAccepted
    \/ \E e \in AwaitErrors : HoldFails(e)
    \/ Teardown

Spec == Init /\ [][Next]_vars

\* the single-key and output-script functions
ScriptInit == Init

ScriptNext ==
    \/ \E n \in 1..3, s \in Signatures, h \in HashTypes :
          Call_input_script_p2pkh_or_p2sh(Pubkey(n), s, h)
    \/ \E n \in 1..3, s \in Signatures, h \in HashTypes :
          Call_witness_p2wpkh(s, Pubkey(n), h)
    \/ \E n \in 0..MaxKeys, m \in 0..MaxKeys :
          Call_output_script_multisig(Pubkeys(n), m)
    \/ \E t \in Trailings : AppendTrailing(t)
    \/ Call_read_input_script_p2pkh
    \/ Call_read_witness_p2wpkh
    \/ Call_read_output_script_multisig

ScriptSpec == ScriptInit /\ [][ScriptNext]_vars

\* the multisig functions, called again and again on one object
MultisigInit ==
    /\ AuthIdle
    /\ ScriptIdle
    /\ multisig \in Multisigs
    /\ multisig_before = multisig

MultisigNext ==
    \/ \E s \in {SigLong, SigShort}, i \in {0, Len(multisig.pubkeys) - 1},
          h \in {1, 129}, c \in Coins :
          Call_input_script_multisig(s, i, h, c)
    \/ \E s \in {SigLong, SigShort}, i \in {0, Len(multisig.pubkeys) - 1},
          h \in {1, 129} :
          Call_witness_p2wsh(s, i, h)
    \/ \E t \in Trailings : AppendTrailing(t)
    \/ Call_read_input_script_multisig
    \/ Call_read_witness_p2wsh

MultisigSpec == MultisigInit /\ [][MultisigNext]_vars

\* bip143_derive_script_code on every script type, key list and threshold
ScriptCodeInit == Init

ScriptCodeNext ==
    \E t \in InputScriptTypes, k \in PublicKeyLists, m \in 0..MaxKeys,
       c \in Coins :
        Call_bip143_derive_script_code([script_type |-> t], k, m, c)

ScriptCodeSpec == ScriptCodeInit /\ [][ScriptCodeNext]_vars

\* ------------------------------------------------------------------------
\* Properties of authorize_coinjoin (specification Spec)

\* a occurs in the run's trace, and b after it
Before(a, b) ==
    \E i, j \in 1..Len(trace) : i < j /\ trace[i] = a /\ trace[j] = b

Happened(a) == \E i \in 1..Len(trace) : trace[i] = a

\* C1: as long as a run has not returned Success (it is still suspended, or
\* it raised in the coordinator check, in validate_path, in require_confirm
\* or in require_hold_to_confirm), the session authorization is what it was
\* when the run began.
C1_FailureLeavesAuthorization ==
    result # "Success" => coinjoin_authorization = auth_before

\* C1 witness: a run declined at the hold-to-confirm prompt while another
\* coordinator's authorization was installed.
C1_Witness ==
    /\ pc = "idle"
    /\ result = "ActionCancelled"
    /\ Happened("hold_failed")
    /\ auth_before.installed
    /\ auth_before.coordinator # msg.coordinator
    /\ coinjoin_authorization = auth_before

\* the regular expression ^[\x20-\x7E]{1,18}$
MatchesRegex(coordinator) ==
    /\ Len(coordinator) \in 1..18
    /\ \A i \in 1..Len(coordinator) : coordinator[i] \in 32..126

\* the same with {0,18}: the empty string matches too
MatchesRegexOrEmpty(coordinator) ==
    /\ Len(coordinator) \in 0..18
    /\ \A i \in 1..Len(coordinator) : coordinator[i] \in 32..126

\* C2 as claimed: the coordinator check passes iff the coordinator matches
\* ^[\x20-\x7E]{1,18}$, and every other coordinator is rejected with
\* DataError.
C2_AcceptsIffRegex ==
    trace # <<>> =>
        IF MatchesRegex(msg.coordinator)
        THEN trace[1] = "coordinator_ok"
        ELSE trace = <<"coordinator_rejected">> /\ result = "DataError"

\* C2 as amended: the coordinator check passes iff the coordinator has at
\* most 18 characters (the empty string included), all in 0x20..0x7E; every
\* other coordinator is rejected with DataError.
C2_AcceptsIffAtMost18Printable ==
    trace # <<>> =>
        IF MatchesRegexOrEmpty(msg.coordinator)
        THEN trace[1] = "coordinator_ok"
        ELSE trace = <<"coordinator_rejected">> /\ result = "DataError"

\* C2 witness: a run on the empty coordinator that passed the check.
C2_Witness ==
    /\ trace # <<>>
    /\ msg.coordinator = <<>>
    /\ trace[1] = "coordinator_ok"
    /\ pc = "validate_path"

\* the steps of a successful run, in order
RunOrder ==
    <<"coordinator_ok", "path_ok", "confirm_shown", "confirm_accepted",
      "hold_shown", "hold_accepted", "install", "return_success">>

Failures ==
    {"coordinator_rejected", "path_rejected", "confirm_failed", "hold_failed"}

\* C3: a run takes its steps in the order coordinator validation, path
\* validation, confirm prompt, hold-to-confirm prompt, install, return
\* Success: its trace is a prefix of that order, ended at most by one
\* failure; a prompt is on screen only with a valid coordinator and a
\* validated path, the hold-to-confirm prompt only after the confirm was
\* accepted; the authorization differs from the one the run began with only
\* after the hold-to-confirm was accepted, and Success is returned only with
\* the authorization installed.
C3_FixedOrder ==
    /\ \A i \in 1..Len(trace) :
          \/ trace[i] = RunOrder[i]
          \/ i = Len(trace) /\ trace[i] \in Failures
    /\ pc \in {"require_confirm", "require_hold_to_confirm"} =>
          /\ ~CoordinatorInvalid(msg.coordinator)
          /\ Before("coordinator_ok", "path_ok")
          /\ Before("path_ok", "confirm_shown")
    /\ pc = "require_hold_to_confirm" =>
          Before("confirm_accepted", "hold_shown")
    /\ coinjoin_authorization # auth_before =>
          Before("hold_accepted", "install")
    /\ result = "Success" =>
          /\ Before("install", "return_success")
          /\ coinjoin_authorization = set_coinjoin_authorization(msg)

\* C3 witness: a run that went through every step and returned Success.
C3_Witness ==
    /\ pc = "idle"
    /\ result = "Success"
    /\ trace = RunOrder

\* C4: the session authorization changes only in two ways: a run suspended
\* in the hold-to-confirm prompt, with the first confirm accepted, is
\* confirmed and installs the authorization built from its request, or a
\* teardown between runs sets it to None; and every run that returns Success
\* leaves the authorization built from its own request, whatever was
\* installed before.
C4_StateMachine ==
    [][ /\ coinjoin_authorization' # coinjoin_authorization =>
             \/ /\ pc = "require_hold_to_confirm"
                /\ Happened("confirm_accepted")
                /\ result' = "Success"
                /\ coinjoin_authorization' = set_coinjoin_authorization(msg)
             \/ /\ pc = "idle" /\ pc' = "idle"
                /\ result' = None
                /\ coinjoin_authorization' = NoAuthorization
        /\ (pc = "require_hold_to_confirm" /\ result' = "Success") =>
             coinjoin_authorization' = set_coinjoin_authorization(msg')
      ]_vars

\* C4 witness: a successful run that began with another request's
\* authorization installed and replaced it.
C4_Witness ==
    /\ result = "Success"
    /\ auth_before.installed
    /\ auth_before # coinjoin_authorization
    /\ coinjoin_authorization = set_coinjoin_authorization(msg)

\* ------------------------------------------------------------------------
\* Properties of the single-key and output-script functions (ScriptSpec)

\* the parser was called on exactly what the builder returned
ParsedBuilt == parsed # NoResult /\ buffer = built.ret

\* the parser was called on what the builder returned followed by more bytes
ParsedWithTrailing == parsed # NoResult /\ buffer # built.ret

\* C5: for a 33-byte pubkey P, a DER signature S and a one-byte hash_type H,
\* input_script_p2pkh_or_p2sh(P, S, H) and witness_p2wpkh(S, P, H) return a
\* buffer, and read_input_script_p2pkh, respectively read_witness_p2wpkh,
\* returns ([P], [(S, H)]) for it.
C5_SingleKeyRoundTrip ==
    fn \in {"input_script_p2pkh_or_p2sh", "witness_p2wpkh"} =>
        /\ built.err = "ok"
        /\ ParsedBuilt =>
             parsed = Return(<< <<args.pubkey>>,
                                << <<args.signature, args.hash_type>> >> >>)

\* C5 witness: the witness of the longest signature, parsed back.
C5_Witness ==
    /\ fn = "witness_p2wpkh"
    /\ ParsedBuilt
    /\ parsed.err = "ok"
    /\ args.signature = SigLong
    /\ args.hash_type = 129

\* C6: for pubkeys of 33 bytes each and 1 <= m <= len(pubkeys) <= 15,
\* output_script_multisig(pubkeys, m) returns a script and
\* read_output_script_multisig returns (pubkeys, m) for it, the keys in the
\* same order.
C6_OutputMultisigRoundTrip ==
    ( /\ fn = "output_script_multisig"
      /\ 1 <= args.m
      /\ args.m <= Len(args.pubkeys)
      /\ Len(args.pubkeys) <= 15 ) =>
        /\ built.err = "ok"
        /\ ParsedBuilt => parsed = Return(<<args.pubkeys, args.m>>)

\* C6 witness: a 7-of-15 script parsed back.
C6_Witness ==
    /\ fn = "output_script_multisig"
    /\ ParsedBuilt
    /\ parsed.err = "ok"
    /\ Len(args.pubkeys) = 15
    /\ args.m = 7

\* ------------------------------------------------------------------------
\* Properties of the multisig functions (MultisigSpec)

\* 1 <= m <= n <= 15 (the keys of the model are all 33 bytes long)
ValidMultisig(ms) ==
    /\ 1 <= ms.m
    /\ ms.m <= Len(ms.pubkeys)
    /\ Len(ms.pubkeys) <= 15
    /\ \A i \in 1..Len(ms.pubkeys) : Len(ms.pubkeys[i]) = 33

\* the n slots of ms, an absent slot empty, with signature in slot index
SlotsWith(ms, signature, index) ==
    [i \in 1..Len(ms.pubkeys) |->
        IF i = index + 1 THEN signature
        ELSE IF i <= Len(ms.signatures) THEN ms.signatures[i]
        ELSE <<>>]

\* the slot at index is empty or absent
SlotEmpty(ms, index) ==
    /\ index \in 0..(Len(ms.pubkeys) - 1)
    /\ index < Len(ms.signatures) => ms.signatures[index + 1] = <<>>

NonEmpty(s) == s # <<>>

\* the non-empty slots in slot order, each paired with hash_type
SignaturePairs(slots, hash_type) ==
    LET filled == SelectSeq(slots, NonEmpty) IN
    [i \in 1..Len(filled) |-> <<filled[i], hash_type>>]

\* C7: for a valid multisig whose slot at signature_index is empty,
\* witness_p2wsh returns a witness, and read_witness_p2wsh returns for it
\* the bytes of output_script_multisig(pubkeys, m) as the script and, in
\* slot order, the non-empty signatures of the multisig with the new one in
\* its slot, each paired with hash_type.
C7_WitnessRoundTrip ==
    ( /\ fn = "witness_p2wsh"
      /\ ValidMultisig(multisig_before)
      /\ SlotEmpty(multisig_before, args.signature_index) ) =>
        /\ built.err = "ok"
        /\ ParsedBuilt =>
             parsed = Return(
                 << output_script_multisig(multisig_before.pubkeys,
                                           multisig_before.m).ret,
                    SignaturePairs(SlotsWith(multisig_before, args.signature,
                                             args.signature_index),
                                   args.hash_type) >>)

\* C7 witness: the witness of an 8-key multisig with another signer's
\* signature in the last slot and ours in the first, parsed back.
C7_Witness ==
    /\ fn = "witness_p2wsh"
    /\ ParsedBuilt
    /\ parsed.err = "ok"
    /\ Len(multisig_before.pubkeys) = 8
    /\ Len(parsed.ret[2]) = 2
    /\ parsed.ret[2][1] = <<SigLong, 129>>
    /\ parsed.ret[2][2] = <<SigUsual, 129>>

\* C8 as claimed: a parser given a builder's output followed by at least
\* one more byte raises DataError.
C8_TrailingDataRejected ==
    ParsedWithTrailing => parsed.err = "DataError"

\* C9 as claimed: the first byte of every scriptSig input_script_multisig
\* returns for a coin that is not Decred, and of every witness
\* witness_p2wsh returns, is 0x00; the scriptSig for a Decred coin does not
\* begin with 0x00.
C9_FirstByteOpFalse ==
    built.err = "ok" =>
        /\ (fn = "input_script_multisig" /\ ~args.coin.decred) => built.ret[1] = 0
        /\ fn = "witness_p2wsh" => built.ret[1] = 0
        /\ (fn = "input_script_multisig" /\ args.coin.decred) => built.ret[1] # 0

\* C9 as amended: a scriptSig returned by input_script_multisig begins with
\* 0x00 if the coin is not Decred or the build is BITCOIN_ONLY, and with the
\* push opcode of its first signature, which is not 0x00, otherwise; a witness returned by
\* witness_p2wsh begins with its item count, 2 plus the number of
\* signatures, and 0x00 is its second byte.
C9_OpFalsePlaceholder ==
    built.err = "ok" =>
        /\ ( /\ fn = "input_script_multisig"
             /\ (args.coin.BITCOIN_ONLY \/ ~args.coin.decred) ) =>
               built.ret[1] = 0
        /\ ( /\ fn = "input_script_multisig"
             /\ args.coin.decred /\ ~args.coin.BITCOIN_ONLY ) =>
               /\ built.ret[1] =
                    Len(SelectSeq(SlotsWith(multisig_before, args.signature,
                                            args.signature_index), NonEmpty)[1]) + 1
               /\ built.ret[1] # 0
        /\ fn = "witness_p2wsh" =>
               /\ built.ret[1] =
                    2 + Len(SelectSeq(SlotsWith(multisig_before, args.signature,
                                                args.signature_index), NonEmpty))
               /\ built.ret[2] = 0

\* C9 witness: a witness of three items, OP_FALSE the first of them.
C9_Witness ==
    /\ fn = "witness_p2wsh"
    /\ built.err = "ok"
    /\ built.ret[1] = 3
    /\ built.ret[2] = 0

\* C10 as claimed: a call of input_script_multisig or witness_p2wsh, whether
\* it returned or raised, leaves the MultisigRedeemScriptType object it was
\* given as it was.
C10_MultisigUnchanged ==
    fn \in {"input_script_multisig", "witness_p2wsh"} =>
        multisig = multisig_before

\* ------------------------------------------------------------------------
\* The slot filled by a call

\* the slot at index exists: witness_p2wsh pads the list to the number of
\* public keys (lines 297-299), input_script_multisig takes it as it is
SlotPresent(name, ms, index) ==
    /\ index \in 0..(Len(ms.pubkeys) - 1)
    /\ name = "input_script_multisig" => Len(ms.signatures) = Len(ms.pubkeys)

\* the slot at index holds a signature
SlotFilled(ms, index) ==
    index < Len(ms.signatures) /\ ms.signatures[index + 1] # <<>>

\* the signatures in the order given, each written by push
RECURSIVE Serialized(_, _, _, _)
Serialized(filled, hash_type, name, i) ==
    IF i > Len(filled) THEN <<>>
    ELSE (IF name = "input_script_multisig"
          THEN write_op_push(Len(filled[i]) + 1)
          ELSE write_bitcoin_varint(Len(filled[i]) + 1))
             \o filled[i] \o <<hash_type>>
             \o Serialized(filled, hash_type, name, i + 1)

\* the bytes a builder puts before the signatures and after them
BeforeSignatures(name, count, coin) ==
    IF name = "input_script_multisig" THEN OpFalsePrefix(coin)
    ELSE write_bitcoin_varint(count + 2) \o <<0>>

AfterSignatures(name, ms) ==
    LET redeem == output_script_multisig(ms.pubkeys, ms.m).ret IN
    (IF name = "input_script_multisig" THEN write_op_push(Len(redeem))
     ELSE write_bitcoin_varint(Len(redeem))) \o redeem

\* C11: input_script_multisig and witness_p2wsh, given a valid multisig and
\* a DER signature for an existing slot signature_index, raise DataError and
\* alter nothing if that slot already holds a signature; otherwise they
\* return a script whose signatures are, in slot order, the signatures the
\* slots held before the call and the new one in slot signature_index, the
\* empty slots skipped, and no slot other than signature_index is altered.
C11_ExactlyOneSlotFilled ==
    ( /\ fn \in {"input_script_multisig", "witness_p2wsh"}
      /\ ValidMultisig(multisig_before)
      /\ SlotPresent(fn, multisig_before, args.signature_index) ) =>
        IF SlotFilled(multisig_before, args.signature_index)
        THEN /\ built = Raised("DataError")
             /\ multisig = multisig_before
        ELSE LET filled == SelectSeq(SlotsWith(multisig_before, args.signature,
                                               args.signature_index), NonEmpty)
                 coin == IF fn = "input_script_multisig" THEN args.coin
                         ELSE [decred |-> FALSE, BITCOIN_ONLY |-> FALSE]
             IN  /\ built.err = "ok"
                 /\ built.ret = BeforeSignatures(fn, Len(filled), coin)
                                    \o Serialized(filled, args.hash_type, fn, 1)
                                    \o AfterSignatures(fn, multisig_before)
                 /\ multisig.pubkeys = multisig_before.pubkeys
                 /\ multisig.m = multisig_before.m
                 /\ Len(multisig.signatures) = Len(multisig_before.signatures)
                 /\ \A i \in 1..Len(multisig.signatures) :
                        i # args.signature_index + 1 =>
                            multisig.signatures[i] = multisig_before.signatures[i]

\* C11 witness: a scriptSig of a multisig of three keys or more with our
\* signature, in the first slot, pushed before the signature the last slot
\* already held.
C11_Witness ==
    /\ fn = "input_script_multisig"
    /\ ValidMultisig(multisig_before)
    /\ Len(multisig_before.pubkeys) >= 3
    /\ built.err = "ok"
    /\ args.signature_index = 0
    /\ args.signature = SigShort
    /\ SlotFilled(multisig_before, Len(multisig_before.pubkeys) - 1)
    /\ multisig.signatures[1] = SigShort
    /\ built.ret = <<0>> \o append_signature(SigShort, args.hash_type)
                        \o append_signature(SigUsual, args.hash_type)
                        \o AfterSignatures(fn, multisig_before)

\* ------------------------------------------------------------------------
\* Legacy multisig scriptSig read back

\* C12: for a coin that is not Decred, a valid multisig with one slot for
\* each public key, the slot at signature_index empty, and a non-empty
\* signature, input_script_multisig returns a scriptSig, and
\* read_input_script_multisig returns for it the bytes of
\* output_script_multisig(pubkeys, m) as the redeem script and, in slot
\* order, the non-empty signatures with the new one in its slot, each paired
\* with hash_type.
C12_ScriptSigRoundTrip ==
    ( /\ fn = "input_script_multisig"
      /\ ~args.coin.decred
      /\ ValidMultisig(multisig_before)
      /\ Len(multisig_before.signatures) = Len(multisig_before.pubkeys)
      /\ SlotEmpty(multisig_before, args.signature_index)
      /\ args.signature # <<>> ) =>
        /\ built.err = "ok"
        /\ ParsedBuilt =>
             parsed = Return(
                 << output_script_multisig(multisig_before.pubkeys,
                                           multisig_before.m).ret,
                    SignaturePairs(SlotsWith(multisig_before, args.signature,
                                             args.signature_index),
                                   args.hash_type) >>)

\* C12 witness: the scriptSig of an 8-key multisig, its redeem script of 275
\* bytes pushed with OP_PUSHDATA2, with another signer's signature in the
\* last slot and ours in the first, parsed back.
C12_Witness ==
    /\ fn = "input_script_multisig"
    /\ ~args.coin.decred
    /\ ParsedBuilt
    /\ parsed.err = "ok"
    /\ Len(multisig_before.pubkeys) = 8
    /\ Len(parsed.ret[1]) = 275
    /\ parsed.ret[2] = << <<SigLong, 129>>, <<SigUsual, 129>> >>

\* ------------------------------------------------------------------------
\* BIP-143 scriptCode (ScriptCodeSpec)

\* a key ecdsa_hash_pubkey takes: 33 bytes compressed, 65 bytes
\* uncompressed, or the one-byte point at infinity
WellFormedPubkey(pubkey) ==
    \/ Len(pubkey) = 65 /\ pubkey[1] = 4
    \/ Len(pubkey) = 1 /\ pubkey[1] = 0
    \/ Len(pubkey) = 33 /\ pubkey[1] \notin {0, 4}

SingleKeyScriptTypes ==
    {"SPENDWITNESS", "SPENDP2SHWITNESS", "SPENDADDRESS", "EXTERNAL"}

\* C13: bip143_derive_script_code does what output_script_multisig(
\* public_keys, threshold) does if there is more than one public key;
\* otherwise, for script type SPENDWITNESS, SPENDP2SHWITNESS, SPENDADDRESS or
\* EXTERNAL and one well-formed key, it returns the 25 bytes 76 A9 14
\* <hash of public_keys[0]> 88 AC; for every other script type it raises
\* DataError (unknown input script type) and returns nothing.
C13_ScriptCodeDispatch ==
    fn = "bip143_derive_script_code" =>
        IF Len(args.public_keys) > 1
        THEN built = output_script_multisig(args.public_keys, args.threshold)
        ELSE IF args.txi.script_type \in SingleKeyScriptTypes
        THEN ( /\ Len(args.public_keys) = 1
               /\ WellFormedPubkey(args.public_keys[1]) ) =>
                 /\ built.err = "ok"
                 /\ Len(built.ret) = 25
                 /\ built.ret = <<118, 169, 20>>
                                    \o script_hash(args.coin, args.public_keys[1])
                                    \o <<136, 172>>
        ELSE built = Raised("DataError")

\* C13 witness: the P2PKH scriptCode of an EXTERNAL input with one
\* compressed key.
C13_Witness ==
    /\ fn = "bip143_derive_script_code"
    /\ args.txi.script_type = "EXTERNAL"
    /\ args.public_keys = <<Pubkey(1)>>
    /\ built.err = "ok"
    /\ Len(built.ret) = 25
    /\ built.ret[1] = 118
    /\ built.ret[25] = 172

====
